---- MODULE Spec2Model ----
(***************************************************************************)
(* Type checking of a minimal subset of Java expressions                   *)
(* (java_type_checker/expressions.py).                                     *)
(*                                                                         *)
(* An expression tree is built by the caller and is immutable; the two     *)
(* operations static_type() and check_types() are pure recursive functions *)
(* of the tree and of the type model it refers to.  The state is the tree  *)
(* under inspection, the operation that was last applied to its root and   *)
(* what that operation produced: a returned value or a raised exception.   *)
(***************************************************************************)
EXTENDS Naturals, Sequences, FiniteSets

VARIABLES
    tree,       \* the expression the caller built
    op,         \* "none" | "static_type" | "check_types": operation applied to the root
    result      \* outcome of that operation

vars == <<tree, op, result>>

(***************************************************************************)
(* Bound: number of expression nodes of a tree.                            *)
(***************************************************************************)
MaxNodes == 3

(***************************************************************************)
(* The type model (java_type_checker/types.py).  A type is an object, here *)
(* a handle; two types are the same type iff they are the same handle.     *)
(***************************************************************************)
T_int     == [type |-> "Type.int"]
T_boolean == [type |-> "Type.boolean"]
T_double  == [type |-> "Type.double"]
T_void    == [type |-> "Type.void"]
T_null    == [type |-> "Type.null"]
T_Animal  == [type |-> "Animal.class"]
T_Dog     == [type |-> "Dog.class"]
T_Puppy   == [type |-> "Puppy.class"]

Types == {T_int, T_boolean, T_double, T_void, T_null, T_Animal, T_Dog, T_Puppy}

\* Python's None: the absent method, the absent constructor, the value of a
\* function that ends without a return statement.
None == [py |-> "None"]

Method(n, argument_types, return_type) ==
    [name |-> n, argument_types |-> argument_types, return_type |-> return_type]

Constructor(argument_types) == [argument_types |-> argument_types]

NoMethods == [n \in {} |-> None]

\* The types the caller registered before any checking.  Animal is an
\* interface-like type without a constructor; Puppy is two levels below Animal
\* and Animal is not among its direct supertypes.
TypeTable ==
    [t \in Types |->
        CASE t = T_Animal ->
               [name |-> "Animal", direct_supertypes |-> {},
                methods |-> NoMethods, constructor |-> None]
          [] t = T_Dog ->
               [name |-> "Dog", direct_supertypes |-> {T_Animal},
                methods |-> [n \in {"feed", "walk", "twin", "groom"} |->
                    CASE n = "feed" -> Method("feed", <<T_Animal>>, T_void)
                      [] n = "groom" -> Method("groom", <<T_Animal, T_int>>, T_void)
                      [] n = "walk" -> Method("walk", <<T_int>>, T_Dog)
                      [] n = "twin" -> Method("twin", <<>>, T_Dog)],
                constructor |-> Constructor(<<T_Animal>>)]
          [] t = T_Puppy ->
               [name |-> "Puppy", direct_supertypes |-> {T_Dog},
                methods |-> NoMethods,
                constructor |-> Constructor(<<T_Animal, T_boolean>>)]
          [] t = T_int     -> [name |-> "int", direct_supertypes |-> {},
                               methods |-> NoMethods, constructor |-> None]
          [] t = T_boolean -> [name |-> "boolean", direct_supertypes |-> {},
                               methods |-> NoMethods, constructor |-> None]
          [] t = T_double  -> [name |-> "double", direct_supertypes |-> {},
                               methods |-> NoMethods, constructor |-> None]
          [] t = T_void    -> [name |-> "void", direct_supertypes |-> {},
                               methods |-> NoMethods, constructor |-> None]
          [] t = T_null    -> [name |-> "null", direct_supertypes |-> {},
                               methods |-> NoMethods, constructor |-> None]]

name_of(t) == TypeTable[t].name

direct_supertypes(t) == TypeTable[t].direct_supertypes

\* Type.method_named(name): the type's own method of that name, or None.
method_named(t, n) ==
    IF n \in DOMAIN TypeTable[t].methods THEN TypeTable[t].methods[n] ELSE None

constructor_of(t) == TypeTable[t].constructor

\* Truth value of a Python object: None is false, an instance of a class that
\* defines neither __bool__ nor __len__ is true.
Truthy(x) == x # None

(***************************************************************************)
(* Expression nodes.                                                       *)
(***************************************************************************)
Variable(n, declared_type) ==
    [kind |-> "Variable", name |-> n, declared_type |-> declared_type]

Literal(value, type) == [kind |-> "Literal", value |-> value, type |-> type]

NullLiteral == [kind |-> "NullLiteral", value |-> "null", type |-> T_null]

MethodCall(receiver, method_name, args) ==
    [kind |-> "MethodCall", receiver |-> receiver,
     method_name |-> method_name, args |-> args]

ConstructorCall(instantiated_type, args) ==
    [kind |-> "ConstructorCall", instantiated_type |-> instantiated_type,
     args |-> args]

(***************************************************************************)
(* Outcomes of an operation: a normal return, or an exception.             *)
(* JavaTypeError carries the message's format string and format arguments; *)
(* its kind tells which raise statement produced it.                       *)
(***************************************************************************)
Returns(v) == [kind |-> "returns", value |-> v]

JavaTypeError(kind, format, format_args) ==
    [kind |-> kind, format |-> format, args |-> format_args]

\* None.return_type, None.argument_types
AttributeError == [kind |-> "AttributeError"]

\* a list index out of range
IndexError == [kind |-> "IndexError"]

Raised(o) == o.kind # "returns"

TypeErrorKinds ==
    {"NoMethodsOnPrimitive", "UnknownMethod", "ArityMismatch",
     "ArgumentTypeMismatch", "PrimitiveNotInstantiable", "NullNotInstantiable"}

\* `a or b or c or d`: the first operand that is true, else the last one.
RECURSIVE PyOr(_)
PyOr(operands) ==
    IF Len(operands) = 1 \/ Truthy(Head(operands))
    THEN Head(operands)
    ELSE PyOr(Tail(operands))

\* (Type.int or Type.boolean or Type.double or Type.void)
PrimitiveOperand == PyOr(<<T_int, T_boolean, T_double, T_void>>)

\* names(named_things): "(" + ", ".join([e.name for e in named_things]) + ")"
RECURSIVE join_names(_)
join_names(named_things) ==
    IF Len(named_things) = 0 THEN ""
    ELSE IF Len(named_things) = 1 THEN name_of(named_things[1])
    ELSE name_of(named_things[1]) \o ", " \o join_names(Tail(named_things))

\* variant: only the first name is listed
names_first_only(named_things) == "(" \o name_of(named_things[1]) \o ")"

names(named_things) == "(" \o join_names(named_things) \o ")"

(***************************************************************************)
(* static_type()                                                           *)
(***************************************************************************)
\* MethodCall.static_type, after the receiver's type is known:
\* receiver_type.method_named(self.method_name).return_type
method_return_type(receiver_type, method_name) ==
    LET m == method_named(receiver_type, method_name)
    IN  IF m = None THEN AttributeError ELSE Returns(m.return_type)

RECURSIVE static_type(_)
static_type(e) ==
    CASE e.kind = "Variable"        -> Returns(e.declared_type)
      [] e.kind = "Literal"         -> Returns(e.type)
      [] e.kind = "NullLiteral"     -> Returns(T_null)
      [] e.kind = "ConstructorCall" -> Returns(e.instantiated_type)
      [] e.kind = "MethodCall"      ->
            LET r == static_type(e.receiver)
            IN  IF Raised(r) THEN r
                ELSE method_return_type(r.value, e.method_name)

\* passedArguments: the static types of all arguments, gathered before any
\* argument is validated.  The first static_type() that raises ends the gathering.
gather_static_types(args) ==
    LET outs == [i \in 1..Len(args) |-> static_type(args[i])]
        bad  == {i \in 1..Len(args) : Raised(outs[i])}
    IN  IF bad = {}
        THEN Returns([i \in 1..Len(args) |-> outs[i].value])
        ELSE outs[CHOOSE i \in bad : \A j \in bad : i <= j]

(***************************************************************************)
(* check_types()                                                           *)
(***************************************************************************)
\* MethodCall: receiver.static_type() is (Type.int or ... or Type.void)
receiver_is_primitive(receiver_type) == receiver_type = PrimitiveOperand

\* ConstructorCall: instantiated_type is (Type.int or ... or Type.void)
instantiated_is_primitive(instantiated_type) == instantiated_type = PrimitiveOperand

\* variant: only a missing argument counts, a surplus one does not
arity_too_few(argument_types, args) == Len(argument_types) > Len(args)

\* len(argument_types) != len(self.args)
arity_differs(argument_types, args) == Len(argument_types) # Len(args)

\* variant: the parameter type may also be a supertype's supertype
method_argument_accepted_transitive(passed, expected) ==
    \/ passed = expected
    \/ expected \in direct_supertypes(passed)
    \/ \E b \in direct_supertypes(passed) : expected \in direct_supertypes(b)
    \/ passed = T_null

\* MethodCall: the if / elif chain that lets an argument through
method_argument_accepted(passed, expected) ==
    \/ passed = expected
    \/ expected \in direct_supertypes(passed)
    \/ passed = T_null

\* variant: the direct-supertype branch is missing
constructor_argument_accepted_exact(passed, expected) ==
    \/ passed = expected
    \/ (passed = T_null /\ expected # PrimitiveOperand)

\* ConstructorCall: the if / elif chain that lets an argument through
constructor_argument_accepted(passed, expected) ==
    \/ passed = expected
    \/ expected \in direct_supertypes(passed)
    \/ (passed = T_null /\ expected # PrimitiveOperand)

no_methods_error(receiver_type) ==
    JavaTypeError("NoMethodsOnPrimitive", "Type {0} does not have methods",
                  <<name_of(receiver_type)>>)

unknown_method_error(receiver_type, method_name) ==
    JavaTypeError("UnknownMethod", "{0} has no method named {1}",
                  <<name_of(receiver_type), method_name>>)

method_arity_error(receiver_type, method_name, argument_types, args) ==
    JavaTypeError("ArityMismatch",
                  "Wrong number of arguments for {0}: expected {1}, got {2}",
                  <<name_of(receiver_type) \o "." \o method_name \o "()",
                    Len(argument_types), Len(args)>>)

method_argument_error(receiver_type, m, passedArguments) ==
    JavaTypeError("ArgumentTypeMismatch",
                  "{0} expects arguments of type {1}, but got {2}",
                  <<name_of(receiver_type) \o "." \o m.name \o "()",
                    names(m.argument_types), names(passedArguments)>>)

not_instantiable_error(instantiated_type) ==
    JavaTypeError("PrimitiveNotInstantiable", "Type {0} is not instantiable",
                  <<name_of(instantiated_type)>>)

null_not_instantiable_error ==
    JavaTypeError("NullNotInstantiable", "Type null is not instantiable", <<>>)

constructor_arity_error(instantiated_type, expectedArguments, args) ==
    JavaTypeError("ArityMismatch",
                  "Wrong number of arguments for {0}: expected {1}, got {2}",
                  <<name_of(instantiated_type) \o " constructor",
                    Len(expectedArguments), Len(args)>>)

constructor_argument_error(instantiated_type, expectedArguments, passedArguments) ==
    JavaTypeError("ArgumentTypeMismatch",
                  "{0} expects arguments of type {1}, but got {2}",
                  <<name_of(instantiated_type) \o " constructor",
                    names(expectedArguments), names(passedArguments)>>)

RECURSIVE check_types(_)
RECURSIVE method_argument_loop(_, _, _, _, _)
RECURSIVE constructor_argument_loop(_, _, _, _, _)

\* for i in range(0, len(self.args)): ... of MethodCall.check_types, from
\* position i on (positions count from 1 here).
method_argument_loop(args, receiver_type, m, passedArguments, i) ==
    IF i > Len(args) THEN Returns(None)
    ELSE LET c == check_types(args[i])
         IN  IF Raised(c) THEN c
             ELSE IF i > Len(m.argument_types) THEN IndexError
             ELSE IF method_argument_accepted(passedArguments[i], m.argument_types[i])
             THEN method_argument_loop(args, receiver_type, m, passedArguments, i + 1)
             ELSE method_argument_error(receiver_type, m, passedArguments)

\* for i in range(0, len(self.args)): ... of ConstructorCall.check_types
constructor_argument_loop(args, instantiated_type, expectedArguments, passedArguments, i) ==
    IF i > Len(args) THEN Returns(None)
    ELSE LET c == check_types(args[i])
         IN  IF Raised(c) THEN c
             ELSE IF i > Len(expectedArguments) THEN IndexError
             ELSE IF constructor_argument_accepted(passedArguments[i], expectedArguments[i])
             THEN constructor_argument_loop(args, instantiated_type, expectedArguments,
                                            passedArguments, i + 1)
             ELSE constructor_argument_error(instantiated_type, expectedArguments,
                                             passedArguments)

MethodCall_check_types(e) ==
    LET r == static_type(e.receiver)
    IN  IF Raised(r) THEN r
        ELSE IF receiver_is_primitive(r.value) THEN no_methods_error(r.value)
        ELSE LET m == method_named(r.value, e.method_name)
             IN  IF ~Truthy(m) THEN unknown_method_error(r.value, e.method_name)
                 ELSE IF arity_differs(m.argument_types, e.args)
                 THEN method_arity_error(r.value, e.method_name, m.argument_types, e.args)
                 ELSE LET g == gather_static_types(e.args)
                      IN  IF Raised(g) THEN g
                          ELSE method_argument_loop(e.args, r.value, m, g.value, 1)

ConstructorCall_check_types(e) ==
    IF instantiated_is_primitive(e.instantiated_type)
    THEN not_instantiable_error(e.instantiated_type)
    ELSE IF e.instantiated_type = T_null THEN null_not_instantiable_error
    ELSE LET c == constructor_of(e.instantiated_type)
         IN  IF c = None THEN AttributeError
             ELSE IF arity_differs(c.argument_types, e.args)
             THEN constructor_arity_error(e.instantiated_type, c.argument_types, e.args)
             ELSE LET g == gather_static_types(e.args)
                  IN  IF Raised(g) THEN g
                      ELSE constructor_argument_loop(e.args, e.instantiated_type,
                                                     c.argument_types, g.value, 1)

check_types(e) ==
    CASE e.kind = "Variable"        -> Returns(e.declared_type)
      [] e.kind = "Literal"         -> Returns(e.type)
      [] e.kind = "NullLiteral"     -> Returns(e.type)
      [] e.kind = "MethodCall"      -> MethodCall_check_types(e)
      [] e.kind = "ConstructorCall" -> ConstructorCall_check_types(e)

(***************************************************************************)
(* The expression trees a caller can build with at most MaxNodes nodes.    *)
(***************************************************************************)
Leaves ==
    {Variable("i", T_int), Variable("b", T_boolean), Variable("a", T_Animal),
     Variable("d", T_Dog), Variable("p", T_Puppy), Literal("1.5", T_double),
     NullLiteral}

MethodNames == {"feed", "walk", "twin", "groom"}

RECURSIVE TreesOfSize(_)
RECURSIVE ForestsOfSize(_)

\* the sequences of trees that have n nodes in total
ForestsOfSize(n) ==
    IF n = 0 THEN {<<>>}
    ELSE UNION {{<<t>> \o f : t \in TreesOfSize(k), f \in ForestsOfSize(n - k)} :
                k \in 1..n}

\* the trees of exactly n nodes
TreesOfSize(n) ==
    IF n = 0 THEN {}
    ELSE (IF n = 1 THEN Leaves ELSE {})
         \cup {ConstructorCall(t, f) : t \in Types, f \in ForestsOfSize(n - 1)}
         \cup {MethodCall(Head(f), mn, Tail(f)) :
                   mn \in MethodNames, f \in ForestsOfSize(n - 1) \ {<<>>}}

(***************************************************************************)
(* Specification                                                           *)
(***************************************************************************)
\* The caller builds the tree bottom-up: the children first (a first child h
\* of k nodes and the remaining children r), then the node that owns them.
Init ==
    /\ op = "none"
    /\ result = None
    /\ \E n \in 1..MaxNodes :
          \/ /\ n = 1
             /\ tree \in Leaves
          \/ /\ n = 1
             /\ \E t \in Types : tree = ConstructorCall(t, <<>>)
          \/ \E t \in Types, k \in 1..(n - 1) :
                \E h \in TreesOfSize(k), r \in ForestsOfSize(n - 1 - k) :
                    tree = ConstructorCall(t, <<h>> \o r)
          \/ \E mn \in MethodNames, k \in 1..(n - 1) :
                \E h \in TreesOfSize(k), r \in ForestsOfSize(n - 1 - k) :
                    tree = MethodCall(h, mn, r)

\* the caller asks for the root's static type
StaticType ==
    /\ op = "none"
    /\ op' = "static_type"
    /\ result' = static_type(tree)
    /\ UNCHANGED tree

\* the caller validates the tree
CheckTypes ==
    /\ op = "none"
    /\ op' = "check_types"
    /\ result' = check_types(tree)
    /\ UNCHANGED tree

Next == StaticType \/ CheckTypes

Spec == Init /\ [][Next]_vars

(***************************************************************************)
(* Vocabulary of the properties.  These definitions state what the         *)
(* documentation of the checker says, independently of check_types().      *)
(***************************************************************************)
Primitives == {T_int, T_boolean, T_double, T_void}

ClassTypes == Types \ (Primitives \cup {T_null})

Checked == op = "check_types"

IsLeaf(e) == e.kind \in {"Variable", "Literal", "NullLiteral"}

IsCall(e) == e.kind \in {"MethodCall", "ConstructorCall"}

\* the type whose method or constructor a call node uses
TargetDefined(e) == e.kind = "MethodCall" => ~Raised(static_type(e.receiver))

TargetType(e) ==
    IF e.kind = "MethodCall" THEN static_type(e.receiver).value
    ELSE e.instantiated_type

\* the declared signature a call node refers to, None when there is none
Signature(e) ==
    IF e.kind = "MethodCall" THEN method_named(TargetType(e), e.method_name)
    ELSE constructor_of(e.instantiated_type)

\* rules 1 and 2 of a call node: the receiver is no primitive and has the
\* method; the instantiated type is neither primitive nor null and declares a
\* constructor
PassesEarlierRules(e) ==
    /\ IsCall(e)
    /\ TargetDefined(e)
    /\ TargetType(e) \notin Primitives
    /\ e.kind = "ConstructorCall" => TargetType(e) # T_null
    /\ Signature(e) # None

ArityMatches(e) == Len(Signature(e).argument_types) = Len(e.args)

ParamType(e, i) == Signature(e).argument_types[i]

ArgType(e, i) == static_type(e.args[i]).value

ArgSubtreeValid(e, i) ==
    /\ ~Raised(static_type(e.args[i]))
    /\ ~Raised(check_types(e.args[i]))

\* the documented acceptance rule: same type, or the parameter type is a direct
\* supertype of the argument type, or null for a parameter that is no primitive
DocumentedAcceptable(a, p) ==
    \/ a = p
    \/ p \in direct_supertypes(a)
    \/ (a = T_null /\ p \notin Primitives)

\* every node of the tree satisfies its own variant's rules
RECURSIVE WellTyped(_)
WellTyped(e) ==
    IF IsLeaf(e) THEN TRUE
    ELSE /\ e.kind = "MethodCall" => WellTyped(e.receiver)
         /\ \A i \in 1..Len(e.args) : WellTyped(e.args[i])
         /\ PassesEarlierRules(e)
         /\ ArityMatches(e)
         /\ \A i \in 1..Len(e.args) :
                DocumentedAcceptable(ArgType(e, i), ParamType(e, i))

\* "(n1, n2, ...)" of the names of a list of types, built from the last name
RECURSIVE Listing(_)
Listing(ts) ==
    IF Len(ts) = 0 THEN ""
    ELSE IF Len(ts) = 1 THEN TypeTable[ts[1]].name
    ELSE Listing(SubSeq(ts, 1, Len(ts) - 1)) \o ", " \o TypeTable[ts[Len(ts)]].name

CallName(e) ==
    IF e.kind = "MethodCall"
    THEN TypeTable[TargetType(e)].name \o "." \o e.method_name \o "()"
    ELSE TypeTable[TargetType(e)].name \o " constructor"

(***************************************************************************)
(* C1.  A MethodCall whose receiver's static type is int, boolean, double  *)
(* or void makes check_types() raise NoMethodsOnPrimitive naming the       *)
(* receiver's type, whatever the method name and the arguments.            *)
(* The code tests the receiver against Type.int only.                      *)
(***************************************************************************)
C1_PrimitiveReceiverRaisesNoMethods ==
    (/\ Checked
     /\ tree.kind = "MethodCall"
     /\ TargetDefined(tree)
     /\ TargetType(tree) \in Primitives)
    => /\ result.kind = "NoMethodsOnPrimitive"
       /\ result.args = <<TypeTable[TargetType(tree)].name>>

(***************************************************************************)
(* C2.  A ConstructorCall of int, boolean, double or void makes            *)
(* check_types() raise PrimitiveNotInstantiable, one of the null type      *)
(* NullNotInstantiable, for every argument list.                           *)
(***************************************************************************)
C2_PrimitiveAndNullNotInstantiable ==
    (Checked /\ tree.kind = "ConstructorCall")
    => /\ tree.instantiated_type \in Primitives
            => result.kind = "PrimitiveNotInstantiable"
       /\ tree.instantiated_type = T_null
            => result.kind = "NullNotInstantiable"

(***************************************************************************)
(* C3.  In a method call and in a constructor call, a null argument is     *)
(* accepted at every position whose parameter type is a class type and is  *)
(* rejected with ArgumentTypeMismatch at every position whose parameter    *)
(* type is int, boolean or double.  Stated for calls that pass the earlier *)
(* rules, have the declared number of arguments, and whose arguments are   *)
(* all leaves and, where not null, of exactly the parameter's type.        *)
(***************************************************************************)
C3_NullOnlyForClassParameters ==
    (/\ Checked
     /\ PassesEarlierRules(tree)
     /\ ArityMatches(tree)
     /\ \A i \in 1..Len(tree.args) :
            /\ IsLeaf(tree.args[i])
            /\ ArgType(tree, i) \in {T_null, ParamType(tree, i)}
     /\ \E i \in 1..Len(tree.args) : ArgType(tree, i) = T_null)
    => IF \E i \in 1..Len(tree.args) :
              /\ ArgType(tree, i) = T_null
              /\ ParamType(tree, i) \in {T_int, T_boolean, T_double}
       THEN result.kind = "ArgumentTypeMismatch"
       ELSE result.kind = "returns"

(***************************************************************************)
(* C4.  A call that passes the earlier rules and whose number of arguments *)
(* differs from the declared number of parameters makes check_types()      *)
(* raise ArityMismatch with the expected and the actual count, whatever    *)
(* the types and the validity of the arguments.                            *)
(***************************************************************************)
C4_ArityMismatchBeforeArguments ==
    (/\ Checked
     /\ PassesEarlierRules(tree)
     /\ ~ArityMatches(tree))
    => /\ result.kind = "ArityMismatch"
       /\ result.args = <<CallName(tree),
                          Len(Signature(tree).argument_types),
                          Len(tree.args)>>

\* a method call with a surplus argument that is itself an invalid subtree
C4_Witness ==
    /\ Checked
    /\ tree.kind = "MethodCall"
    /\ PassesEarlierRules(tree)
    /\ Len(tree.args) > Len(Signature(tree).argument_types)
    /\ \E i \in 1..Len(tree.args) : Raised(check_types(tree.args[i]))
    /\ result.kind = "ArityMismatch"

(***************************************************************************)
(* C5.  Acceptance looks exactly one level up: in a call that passes the   *)
(* earlier rules, has the declared number of arguments and whose argument  *)
(* subtrees are valid and not of the null type, check_types() returns iff  *)
(* every argument's type A and parameter type P satisfy A = P or P is in   *)
(* A's direct_supertypes, and raises ArgumentTypeMismatch otherwise; so an *)
(* argument two levels below its parameter type is rejected.               *)
(***************************************************************************)
C5_ExactlyOneLevelUp ==
    (/\ Checked
     /\ PassesEarlierRules(tree)
     /\ ArityMatches(tree)
     /\ \A i \in 1..Len(tree.args) :
            ArgSubtreeValid(tree, i) /\ ArgType(tree, i) # T_null)
    => IF \A i \in 1..Len(tree.args) :
              \/ ArgType(tree, i) = ParamType(tree, i)
              \/ ParamType(tree, i) \in TypeTable[ArgType(tree, i)].direct_supertypes
       THEN result.kind = "returns"
       ELSE result.kind = "ArgumentTypeMismatch"

\* a method call is handed a grandchild of its parameter type and rejects it
C5_Witness ==
    /\ Checked
    /\ tree.kind = "MethodCall"
    /\ PassesEarlierRules(tree)
    /\ ArityMatches(tree)
    /\ \E i \in 1..Len(tree.args) :
          /\ ArgSubtreeValid(tree, i)
          /\ ParamType(tree, i) \notin TypeTable[ArgType(tree, i)].direct_supertypes
          /\ \E b \in TypeTable[ArgType(tree, i)].direct_supertypes :
                ParamType(tree, i) \in TypeTable[b].direct_supertypes
    /\ result.kind = "ArgumentTypeMismatch"

(***************************************************************************)
(* C6.  When every node of the tree satisfies its own variant's rules,     *)
(* check_types() on the root returns normally.                             *)
(***************************************************************************)
C6_WellTypedTreeReturns ==
    (Checked /\ WellTyped(tree)) => result.kind = "returns"

\* a well-typed method call on a freshly constructed object that takes a
\* subtype of its constructor's parameter type
C6_Witness ==
    /\ Checked
    /\ tree.kind = "MethodCall"
    /\ tree.receiver.kind = "ConstructorCall"
    /\ Len(tree.receiver.args) > 0
    /\ WellTyped(tree)
    /\ ParamType(tree.receiver, 1)
          \in TypeTable[ArgType(tree.receiver, 1)].direct_supertypes
    /\ result.kind = "returns"

(***************************************************************************)
(* C7.  check_types() validates the whole subtree: when the receiver       *)
(* expression of a MethodCall is itself invalid (its own check_types()     *)
(* raises a type error), check_types() on the MethodCall does not return   *)
(* normally.  The code never validates the receiver.                       *)
(***************************************************************************)
C7_InvalidReceiverIsReported ==
    (/\ Checked
     /\ tree.kind = "MethodCall"
     /\ check_types(tree.receiver).kind \in TypeErrorKinds)
    => result.kind # "returns"

(***************************************************************************)
(* C8.  When a call whose argument subtrees are all valid rejects an       *)
(* argument, the ArgumentTypeMismatch error names the call, the complete   *)
(* list of declared parameter types and the complete list of the static    *)
(* types of all supplied arguments.                                        *)
(***************************************************************************)
C8_MismatchListsAllTypes ==
    (/\ Checked
     /\ PassesEarlierRules(tree)
     /\ ArityMatches(tree)
     /\ \A i \in 1..Len(tree.args) : ArgSubtreeValid(tree, i)
     /\ result.kind = "ArgumentTypeMismatch")
    => result.args =
          <<CallName(tree),
            "(" \o Listing(Signature(tree).argument_types) \o ")",
            "(" \o Listing([i \in 1..Len(tree.args) |-> ArgType(tree, i)]) \o ")">>

\* a two-argument call whose first argument is fine and whose second is rejected
C8_Witness ==
    /\ Checked
    /\ PassesEarlierRules(tree)
    /\ ArityMatches(tree)
    /\ Len(tree.args) = 2
    /\ \A i \in 1..2 : ArgSubtreeValid(tree, i)
    /\ ArgType(tree, 1) = ParamType(tree, 1)
    /\ ArgType(tree, 2) # ParamType(tree, 2)
    /\ result.kind = "ArgumentTypeMismatch"

(***************************************************************************)
(* C9.  Arguments are handled left to right, each validated before its     *)
(* type is compared: in a call with the declared number of arguments the   *)
(* outcome is the error of the smallest position that has a violation; at  *)
(* that position the error raised inside the argument's subtree if there   *)
(* is one, else this call's ArgumentTypeMismatch.  A position has a       *)
(* violation when validating its subtree raises or when its type is not    *)
(* let through by the call.  The code asks every argument for its static   *)
(* type before it validates the first one.                                 *)
(***************************************************************************)
C9_ArgumentAccepted(e, i) ==
    IF e.kind = "MethodCall"
    THEN method_argument_accepted(ArgType(e, i), ParamType(e, i))
    ELSE constructor_argument_accepted(ArgType(e, i), ParamType(e, i))

C9_SubtreeViolation(e, i) == Raised(check_types(e.args[i]))

C9_Violation(e, i) ==
    \/ C9_SubtreeViolation(e, i)
    \/ ~Raised(static_type(e.args[i])) /\ ~C9_ArgumentAccepted(e, i)

C9_LeftmostViolationWins ==
    (/\ Checked
     /\ PassesEarlierRules(tree)
     /\ ArityMatches(tree)
     /\ \E i \in 1..Len(tree.args) : C9_Violation(tree, i))
    => LET i == CHOOSE k \in 1..Len(tree.args) :
                    /\ C9_Violation(tree, k)
                    /\ \A j \in 1..(k - 1) : ~C9_Violation(tree, j)
       IN  IF C9_SubtreeViolation(tree, i)
           THEN result = check_types(tree.args[i])
           ELSE result.kind = "ArgumentTypeMismatch"

(***************************************************************************)
(* C10.  check_types() either returns normally or raises a type error of   *)
(* one of the six kinds; it fails in no other way.                         *)
(***************************************************************************)
C10_OnlyTypeErrors ==
    Checked => result.kind \in {"returns"} \cup TypeErrorKinds

====
